---- MODULE Spec2Model ----
(***************************************************************************)
(* Model of the alarm-snooze game (src/src/game.rs, main.rs, menu.rs).     *)
(*                                                                         *)
(* One frame of the engine is modelled as: every system registered with    *)
(* add_system runs exactly once, in an order the scheduler is free to      *)
(* choose (no .before/.after/.label is given in GamePlugin::build), then    *)
(* EndTick applies the queued commands, propagates transforms and draws    *)
(* the next frame's delta.  Times are in microseconds, coordinates in the  *)
(* game's world units.                                                      *)
(***************************************************************************)
EXTENDS Integers, Naturals, Sequences, FiniteSets, TLC

VARIABLES
    gameState,          \* State<GameState>: "Menu" | "GameLoading" | "Game"
    ran,                \* systems that already ran in the current frame
    delta,              \* Time::delta() of the current frame
    inputAllowed,       \* InputAllowed(bool)
    alarmActive,        \* AlarmActive(bool)
    gameTime,           \* GameTime {hour, minute}
    numSnoozes,         \* NumSnoozes(u32)
    validPressPosition, \* ValidPressPosition(bool)
    missTimer,          \* MissTimer(Timer)
    vibrateTimer,       \* VibrateTimer(Timer)
    snoozeEvents,       \* SnoozeEvents not yet read by snooze_system
    fadeEvents,         \* FadeEvents not yet read by fade_system
    tweenEvents,        \* TweenCompleted tags not yet read by sleep_system
    overlay,            \* the Overlay entity and its Animator<UiColor>
    cmdFade,            \* queued insert(Animator) on the overlay (tag, 0 = none)
    phone,              \* the Phone entity: Transform, GlobalTransform, Animator
    phoneCmd,           \* queued commands on the phone entity
    alarmPlaying,       \* the looped alarm sound is playing in ALARM_CHANNEL
    emitted,            \* what the last step read from the keyboard and emitted
    failed,             \* history: table_bounds_system has seen the phone off the table
    summaries,          \* history: the game-over summaries shown so far
    sinceMiss,          \* history: frame time since the last accepted miss (saturating)
    lastHit,            \* history: clock and count at the last accepted hit; hit in this frame
    hitTest,            \* two rectangles and the value intersects gave for them
    keyboard,           \* Input<KeyCode>: the keys held in the current frame
    handJoint,          \* motor of the joint of the Hand: target velocity, factor
    armJoint,           \* motor of the joint of the Arm: target velocity, factor
    armAnchor           \* the ArmAnchor body: position and linear velocity

vars == <<gameState, ran, delta, inputAllowed, alarmActive, gameTime, numSnoozes,
          validPressPosition, missTimer, vibrateTimer, snoozeEvents, fadeEvents,
          tweenEvents, overlay, cmdFade, phone, phoneCmd, alarmPlaying, emitted,
          failed, summaries, sinceMiss, lastHit, hitTest,
          keyboard, handJoint, armJoint, armAnchor>>

-----------------------------------------------------------------------------
(* Program constants (game.rs:15-67) *)

VIBRATE_TIME == 500000
VIBRATION_DELAY_SECONDS == 1500000
MISS_PENALTY_SECONDS == 1000000

FADE_OUT_TWEEN_COMPLETED == 1
FADE_IN_TWEEN_COMPLETED == 2
VIBRATE_TWEEN_COMPLETED == 3

MAX_VIBRATE_TRANSLATION == 100

\* motor target velocities, in rad/s, and anchor speed, in units/s
HAND_CONTROL_POWER == 2
ARM_CONTROL_POWER == 1
ARM_EXTENSION_CONTROL_POWER == 150

\* motor factors 0.1 and 0.05, in hundredths
HAND_MOTOR_FACTOR == 10
ARM_MOTOR_FACTOR == 5

ARM_EXTENSION_LIMIT == 750
ARM_RETRACTION_LIMIT == 1700

ARM_ANCHOR_STARTING_POSITION_X == 1400
ARM_ANCHOR_STARTING_POSITION_Y == 0

TABLE_EDGE_LEFT == -577
TABLE_EDGE_RIGHT == 440
TABLE_EDGE_TOP == 370
TABLE_EDGE_BOTTOM == -290

SNOOZE_MINUTES == 7
MINUTES_PER_HOUR == 60
HOURS_PER_DAY == 24

STARTING_TIME == [hour |-> 8, minute |-> 0]

\* key bindings (game.rs:54-60)
ROTATE_HAND_UP_KEY == "W"
ROTATE_HAND_DOWN_KEY == "S"
ROTATE_ARM_UP_KEY == "Up"
ROTATE_ARM_DOWN_KEY == "Down"
EXTEND_ARM_KEY == "Left"
RETRACT_ARM_KEY == "Right"

-----------------------------------------------------------------------------
(* Bounds of the model *)

\* snoozes explored in one run (hits are no longer offered once reached)
MaxSnoozes == 2

\* frame deltas the engine may report: two thirds and four thirds of the
\* current vibration interval d, so that the repeating timer's remainder
\* takes three values per interval; both are longer than VIBRATE_TIME for
\* every interval the bounds reach
FrameDeltas(d) == {2 * (d \div 3), 4 * (d \div 3)}

\* displacements vibrate_phone may draw, per axis, out of
\* [-MAX_VIBRATE_TRANSLATION, MAX_VIBRATE_TRANSLATION)
XOffsets == {0}
YOffsets == {MAX_VIBRATE_TRANSLATION - 1}

-----------------------------------------------------------------------------
(* bevy Timer, as used by MissTimer and VibrateTimer *)

\* Timer::from_seconds(duration, repeating)
TimerFromSeconds(duration, repeating) ==
    [duration |-> duration, elapsed |-> 0, finished |-> FALSE, repeating |-> repeating]

\* Timer::tick(delta): the timer after the tick, with what finished() and
\* times_finished then return.  A repeating timer recomputes its finished
\* flag in every tick and the program reads it only right after the tick
\* (game.rs:914), so the flag is kept in the state for one-shot timers only.
TimerTick(t, d) ==
    IF ~t.repeating /\ t.finished
    THEN [timer |-> t, finished |-> TRUE, timesFinished |-> 0]
    ELSE LET e == t.elapsed + d
         IN  IF e >= t.duration
             THEN IF t.repeating
                  THEN [timer |-> [t EXCEPT !.elapsed = e % t.duration],
                        finished |-> TRUE,
                        timesFinished |-> e \div t.duration]
                  ELSE [timer |-> [t EXCEPT !.elapsed = t.duration, !.finished = TRUE],
                        finished |-> TRUE,
                        timesFinished |-> 1]
             ELSE [timer |-> [t EXCEPT !.elapsed = e],
                   finished |-> FALSE,
                   timesFinished |-> 0]

-----------------------------------------------------------------------------
(* GameTime::snooze *)

\* a snooze that never carries into the hour
SnoozeWithoutHourCarry(t) ==
    [hour |-> t.hour, minute |-> (t.minute + SNOOZE_MINUTES) % MINUTES_PER_HOUR]

\* a snooze whose hour does not wrap at HOURS_PER_DAY
SnoozeWithoutDayWrap(t) ==
    LET new_minute == (t.minute + SNOOZE_MINUTES) % MINUTES_PER_HOUR
        new_hour == IF new_minute < t.minute
                    THEN t.hour + 1
                    ELSE t.hour
    IN  [hour |-> new_hour, minute |-> new_minute]

Snooze(t) ==
    LET new_minute == (t.minute + SNOOZE_MINUTES) % MINUTES_PER_HOUR
        new_hour == IF new_minute < t.minute
                    THEN (t.hour + 1) % HOURS_PER_DAY
                    ELSE t.hour
    IN  [hour |-> new_hour, minute |-> new_minute]

-----------------------------------------------------------------------------
(* intersects (game.rs:750-771).  A transform is [x, y, sx2, sy2] with the  *)
(* scale stored doubled (sx2 = 2 * scale.x) so that the phone's 0.5 scale   *)
(* stays an integer; the edges are computed in quarter units (4 * edge).    *)

NoneSize == [some |-> FALSE, x |-> 0, y |-> 0]
SomeSize(w, h) == [some |-> TRUE, x |-> w, y |-> h]

\* Option<Vec2>::unwrap_or(Vec2::ONE)
UnwrapOrOne(c) == IF c.some THEN [x |-> c.x, y |-> c.y] ELSE [x |-> 1, y |-> 1]

Intersects(a, a_sprite_custom_size, b, b_sprite_custom_size) ==
    LET a_width2  == UnwrapOrOne(a_sprite_custom_size).x * a.sx2   \* 2 * a_width
        a_height2 == UnwrapOrOne(a_sprite_custom_size).y * a.sy2
        a_left   == 4 * a.x - a_width2
        a_right  == 4 * a.x + a_width2
        a_top    == 4 * a.y + a_height2
        a_bottom == 4 * a.y - a_height2
        b_width2  == UnwrapOrOne(b_sprite_custom_size).x * b.sx2
        b_height2 == UnwrapOrOne(b_sprite_custom_size).y * b.sy2
        b_left   == 4 * b.x - b_width2
        b_right  == 4 * b.x + b_height2      \* game.rs:766 adds b_height / 2
        b_top    == 4 * b.y + b.sy2          \* game.rs:767 adds b.scale.y / 2
        b_bottom == 4 * b.y - b.sy2          \* game.rs:768
    IN  a_left < b_right /\ a_right > b_left /\ a_top > b_bottom /\ a_bottom < b_top

\* no rectangles under test
NoHitTest == [applied |-> FALSE]

\* the SnoozeButton child of the phone (game.rs:309-324): local translation
\* (0, -200) under the phone's scale 0.5, custom_size 250 x 100
SnoozeButtonTransform(p) == [x |-> p.x, y |-> p.y - 100, sx2 |-> 1, sy2 |-> 1]
SnoozeButtonSize == SomeSize(250, 100)

\* a TouchArea child of the hand (game.rs:459-537), scale 30 x 25, placed by
\* the physics at an offset d from the button
TouchAreaTransform(p, d) ==
    [x |-> SnoozeButtonTransform(p).x + d[1], y |-> SnoozeButtonTransform(p).y + d[2],
     sx2 |-> 60, sy2 |-> 50]

\* finger placements the physics may produce in a frame: on the button, away from it
TouchPlacements == {<<0, 0>>, <<400, 300>>}

-----------------------------------------------------------------------------
(* Entities *)

Origin == [x |-> 0, y |-> 0]

NoPhone == [exists |-> FALSE, pos |-> Origin, global |-> Origin,
            animating |-> FALSE, end |-> Origin]
NoPhoneCmd == [insert |-> FALSE, end |-> Origin, despawn |-> FALSE]
NoOverlay == [exists |-> FALSE, tag |-> 0, ended |-> FALSE]

\* the motor of a revolute joint: JointData::motor_velocity(axis, target_vel, factor)
NoJoint == [exists |-> FALSE, target_vel |-> 0, factor |-> 0]
MotorVelocity(joint, target_vel, factor) ==
    [joint EXCEPT !.target_vel = target_vel, !.factor = factor]

\* the joints game_setup attaches (game.rs:541-559)
ArmJointSpawned == MotorVelocity([NoJoint EXCEPT !.exists = TRUE], 0, ARM_MOTOR_FACTOR)
HandJointSpawned == MotorVelocity([NoJoint EXCEPT !.exists = TRUE], 0, HAND_MOTOR_FACTOR)

\* the ArmAnchor body: translation and linvel
NoArmAnchor == [exists |-> FALSE, x |-> 0, y |-> 0, linvel |-> Origin]

\* the anchor game_setup spawns (game.rs:349-389)
ArmAnchorSpawned ==
    [exists |-> TRUE, x |-> ARM_ANCHOR_STARTING_POSITION_X,
     y |-> ARM_ANCHOR_STARTING_POSITION_Y, linvel |-> Origin]

\* an edge test that also fires on the edges
OffTableOrOnEdge(t) ==
    \/ t.x <= TABLE_EDGE_LEFT
    \/ t.x >= TABLE_EDGE_RIGHT
    \/ t.y >= TABLE_EDGE_TOP
    \/ t.y <= TABLE_EDGE_BOTTOM

\* the test of table_bounds_system (game.rs:987-990)
OffTable(t) ==
    \/ t.x < TABLE_EDGE_LEFT
    \/ t.x > TABLE_EDGE_RIGHT
    \/ t.y > TABLE_EDGE_TOP
    \/ t.y < TABLE_EDGE_BOTTOM

-----------------------------------------------------------------------------
(* Scheduling: the systems GamePlugin::build and TweeningPlugin add to the  *)
(* update stage; each runs once per frame.                                  *)

Gameplay == {"valid_press", "press", "sleep", "vibration", "table_bounds", "snooze",
             "miss_penalty"}
Before == <<"animator_ui", "animator_transform", "fade">>
Range(q) == {q[i] : i \in 1..Len(q)}
Systems == Range(Before) \cup Gameplay

\* The gameplay systems, which share the resources, run in any order.  The
\* systems that meet them only through events and commands are given a fixed
\* place: the animators (game.rs:107, main.rs:106) and fade_system
\* (game.rs:108) run ahead of the gameplay systems, in this order, and
\* valid_press_position_system, which shares only ValidPressPosition with
\* press_system, runs as the first or as the last gameplay system.
MayRun(s) ==
    /\ s \notin ran
    /\ \A i \in 1..Len(Before) :
          IF Before[i] = s
          THEN \A j \in 1..(i - 1) : Before[j] \in ran
          ELSE s \notin Range(Before) => Before[i] \in ran
    /\ s = "valid_press" =>
          \/ ran \cap Gameplay = {}
          \/ Gameplay \ {"valid_press"} \subseteq ran

Runs(s) == MayRun(s) /\ ran' = ran \cup {s}

\* resources inserted by GamePlugin::build (game.rs:97-106)
Init ==
    /\ gameState = "Menu"
    /\ ran = {}
    /\ delta \in FrameDeltas(VIBRATION_DELAY_SECONDS)
    /\ gameTime = STARTING_TIME
    /\ validPressPosition = FALSE
    /\ inputAllowed = TRUE
    /\ alarmActive = TRUE
    /\ vibrateTimer = TimerFromSeconds(VIBRATION_DELAY_SECONDS, TRUE)
    /\ missTimer = TimerFromSeconds(MISS_PENALTY_SECONDS, FALSE)
    /\ numSnoozes = 0
    /\ snoozeEvents = 0
    /\ fadeEvents = <<>>
    /\ tweenEvents = {}
    /\ overlay = NoOverlay
    /\ cmdFade = 0
    /\ phone = NoPhone
    /\ phoneCmd = NoPhoneCmd
    /\ alarmPlaying = FALSE
    /\ emitted = {}
    /\ failed = FALSE
    /\ summaries = <<>>
    /\ sinceMiss = MISS_PENALTY_SECONDS
    /\ lastHit = [time |-> STARTING_TIME, snoozes |-> 0, tick |-> FALSE]
    /\ hitTest = NoHitTest
    /\ keyboard = {}
    /\ handJoint = NoJoint
    /\ armJoint = NoJoint
    /\ armAnchor = NoArmAnchor

-----------------------------------------------------------------------------
(* Systems of the update stage *)

\* component_animator_system::<UiColor> (game.rs:107) driving the tween that
\* fade_ui_color put on the overlay.  The tween's clock is kept by the
\* tweening library: the model lets a tween in flight complete in any frame,
\* and the completion is reported once, with the tween's tag.
AnimatorUi ==
    /\ Runs("animator_ui")
    /\ IF overlay.exists /\ overlay.tag # 0 /\ ~overlay.ended
       THEN \E completed \in BOOLEAN :
               IF completed
               THEN /\ overlay' = [overlay EXCEPT !.ended = TRUE]
                    /\ tweenEvents' = tweenEvents \cup {overlay.tag}
               ELSE UNCHANGED <<overlay, tweenEvents>>
       ELSE UNCHANGED <<overlay, tweenEvents>>
    /\ emitted' = {}
    /\ UNCHANGED <<gameState, delta, inputAllowed, alarmActive, gameTime, numSnoozes,
                   validPressPosition, missTimer, vibrateTimer, snoozeEvents, fadeEvents,
                   cmdFade, phone, phoneCmd, alarmPlaying, failed, summaries, sinceMiss, lastHit,
                   hitTest,
                   keyboard, handJoint, armJoint, armAnchor>>

\* component_animator_system::<Transform> (TweeningPlugin, main.rs:106) driving
\* the tracks vibrate_phone put on the phone; every delta of the model is at
\* least VIBRATE_TIME, so one tick takes the phone to the end position
AnimatorTransform ==
    /\ Runs("animator_transform")
    /\ IF phone.exists /\ phone.animating /\ delta >= VIBRATE_TIME
       THEN /\ phone' = [phone EXCEPT !.pos = phone.end, !.animating = FALSE]
            /\ tweenEvents' = tweenEvents \cup {VIBRATE_TWEEN_COMPLETED}
       ELSE UNCHANGED <<phone, tweenEvents>>
    /\ emitted' = {}
    /\ UNCHANGED <<gameState, delta, inputAllowed, alarmActive, gameTime, numSnoozes,
                   validPressPosition, missTimer, vibrateTimer, snoozeEvents, fadeEvents,
                   overlay, cmdFade, phoneCmd, alarmPlaying, failed, summaries, sinceMiss, lastHit,
                   hitTest,
                   keyboard, handJoint, armJoint, armAnchor>>

\* tag fade_system passes to fade_ui_color for a direction (game.rs:572-589)
FadeTag(dir) == IF dir = "In" THEN FADE_IN_TWEEN_COMPLETED ELSE FADE_OUT_TWEEN_COMPLETED

\* fade_system (game.rs:565-592): every event queues an insert of a new
\* Animator on each Overlay entity; the last insert is the one that stays
FadeSystem ==
    /\ Runs("fade")
    /\ cmdFade' = IF overlay.exists /\ fadeEvents # <<>>
                  THEN FadeTag(fadeEvents[Len(fadeEvents)])
                  ELSE cmdFade
    /\ fadeEvents' = <<>>
    /\ emitted' = {}
    /\ UNCHANGED <<gameState, delta, inputAllowed, alarmActive, gameTime, numSnoozes,
                   validPressPosition, missTimer, vibrateTimer, snoozeEvents, tweenEvents,
                   overlay, phone, phoneCmd, alarmPlaying, failed, summaries, sinceMiss, lastHit,
                   hitTest,
                   keyboard, handJoint, armJoint, armAnchor>>

\* valid_press_position_system (game.rs:727-747); the touch areas are where
\* the physics put the hand in this frame
ValidPressPositionSystem ==
    /\ Runs("valid_press")
    /\ \E fingers \in (SUBSET TouchPlacements) \ {{}} :
          validPressPosition' =
              /\ phone.exists
              /\ \E d \in fingers :
                    Intersects(SnoozeButtonTransform(phone.global), SnoozeButtonSize,
                               TouchAreaTransform(phone.global, d), NoneSize)
    /\ emitted' = {}
    /\ UNCHANGED <<gameState, delta, inputAllowed, alarmActive, gameTime, numSnoozes,
                   missTimer, vibrateTimer, snoozeEvents, fadeEvents, tweenEvents,
                   overlay, cmdFade, phone, phoneCmd, alarmPlaying, failed, summaries, sinceMiss, lastHit,
                   hitTest,
                   keyboard, handJoint, armJoint, armAnchor>>

\* a press_system without the early return on a closed gate
PressSystemIgnoringGate ==
    /\ Runs("press")
    /\ \E just_pressed \in BOOLEAN :
          LET key == IF just_pressed THEN {"key_press"} ELSE {}
          IN
          /\ (just_pressed /\ validPressPosition) => numSnoozes < MaxSnoozes
          /\ IF just_pressed
             THEN IF validPressPosition
                  THEN /\ snoozeEvents' = snoozeEvents + 1
                       /\ emitted' = key \cup {"hit_sound", "snooze_event"}
                       /\ lastHit' = [time |-> gameTime, snoozes |-> numSnoozes, tick |-> TRUE]
                       /\ UNCHANGED <<inputAllowed, missTimer, sinceMiss>>
                  ELSE /\ inputAllowed' = FALSE
                       /\ missTimer' = TimerFromSeconds(MISS_PENALTY_SECONDS, FALSE)
                       /\ emitted' = key \cup {"hit_sound", "miss"}
                       /\ sinceMiss' = 0
                       /\ UNCHANGED <<snoozeEvents, lastHit>>
             ELSE /\ emitted' = {}
                  /\ UNCHANGED <<inputAllowed, missTimer, snoozeEvents, sinceMiss,
                                 lastHit>>
    /\ UNCHANGED <<gameState, delta, alarmActive, gameTime, numSnoozes,
                   validPressPosition, vibrateTimer, fadeEvents, tweenEvents,
                   overlay, cmdFade, phone, phoneCmd, alarmPlaying, failed, summaries,
                   hitTest,
                   keyboard, handJoint, armJoint, armAnchor>>

\* a press_system that restarts the miss timer on a hit as well
PressSystemRestartingTimerOnHit ==
    /\ Runs("press")
    /\ \E just_pressed \in BOOLEAN :
          LET key == IF just_pressed THEN {"key_press"} ELSE {}
          IN
          /\ (just_pressed /\ validPressPosition) => numSnoozes < MaxSnoozes
          /\ IF ~inputAllowed
             THEN /\ emitted' = key
                  /\ UNCHANGED <<inputAllowed, missTimer, snoozeEvents, sinceMiss, lastHit>>
             ELSE IF just_pressed
                  THEN IF validPressPosition
                       THEN /\ snoozeEvents' = snoozeEvents + 1
                            /\ missTimer' = TimerFromSeconds(MISS_PENALTY_SECONDS, FALSE)
                            /\ emitted' = key \cup {"hit_sound", "snooze_event"}
                            /\ lastHit' = [time |-> gameTime, snoozes |-> numSnoozes, tick |-> TRUE]
                            /\ UNCHANGED <<inputAllowed, sinceMiss>>
                       ELSE /\ inputAllowed' = FALSE
                            /\ missTimer' = TimerFromSeconds(MISS_PENALTY_SECONDS, FALSE)
                            /\ emitted' = key \cup {"hit_sound", "miss"}
                            /\ sinceMiss' = 0
                            /\ UNCHANGED <<snoozeEvents, lastHit>>
                  ELSE /\ emitted' = {}
                       /\ UNCHANGED <<inputAllowed, missTimer, snoozeEvents, sinceMiss,
                                      lastHit>>
    /\ UNCHANGED <<gameState, delta, alarmActive, gameTime, numSnoozes,
                   validPressPosition, vibrateTimer, fadeEvents, tweenEvents,
                   overlay, cmdFade, phone, phoneCmd, alarmPlaying, failed, summaries,
                   hitTest, keyboard, handJoint, armJoint, armAnchor>>

\* press_system (game.rs:774-800); just_pressed is the keyboard's
\* just_pressed(PRESS_KEY) in this frame
PressSystem ==
    /\ Runs("press")
    /\ \E just_pressed \in BOOLEAN :
          LET key == IF just_pressed THEN {"key_press"} ELSE {}
          IN
          /\ (just_pressed /\ validPressPosition) => numSnoozes < MaxSnoozes
          /\ IF ~inputAllowed
             THEN /\ emitted' = key
                  /\ UNCHANGED <<inputAllowed, missTimer, snoozeEvents, sinceMiss, lastHit>>
             ELSE IF just_pressed
                  THEN IF validPressPosition
                       THEN /\ snoozeEvents' = snoozeEvents + 1
                            /\ emitted' = key \cup {"hit_sound", "snooze_event"}
                            /\ lastHit' = [time |-> gameTime, snoozes |-> numSnoozes, tick |-> TRUE]
                            /\ UNCHANGED <<inputAllowed, missTimer, sinceMiss>>
                       ELSE /\ inputAllowed' = FALSE
                            /\ missTimer' = TimerFromSeconds(MISS_PENALTY_SECONDS, FALSE)
                            /\ emitted' = key \cup {"hit_sound", "miss"}
                            /\ sinceMiss' = 0
                            /\ UNCHANGED <<snoozeEvents, lastHit>>
                  ELSE /\ emitted' = {}
                       /\ UNCHANGED <<inputAllowed, missTimer, snoozeEvents, sinceMiss,
                                      lastHit>>
    /\ UNCHANGED <<gameState, delta, alarmActive, gameTime, numSnoozes,
                   validPressPosition, vibrateTimer, fadeEvents, tweenEvents,
                   overlay, cmdFade, phone, phoneCmd, alarmPlaying, failed, summaries,
                   hitTest,
                   keyboard, handJoint, armJoint, armAnchor>>

\* miss_penalty_system (game.rs:803-811)
MissPenaltySystem ==
    /\ Runs("miss_penalty")
    /\ LET r == TimerTick(missTimer, delta)
       IN  /\ missTimer' = r.timer
           /\ inputAllowed' = IF r.timesFinished > 0 THEN TRUE ELSE inputAllowed
           /\ emitted' = IF r.timesFinished > 0 THEN {"penalty_over"} ELSE {}
    /\ UNCHANGED <<gameState, delta, alarmActive, gameTime, numSnoozes,
                   validPressPosition, vibrateTimer, snoozeEvents, fadeEvents,
                   tweenEvents, overlay, cmdFade, phone, phoneCmd, alarmPlaying,
                   failed, summaries, sinceMiss, lastHit,
                   hitTest,
                   keyboard, handJoint, armJoint, armAnchor>>

\* the speed-up of snooze_system (game.rs:844-847)
SpeedUp(t) ==
    IF t.duration > VIBRATE_TIME
    THEN TimerFromSeconds((t.duration * 9) \div 10, TRUE)
    ELSE t

\* a snooze_system that leaves the input flag as it is
SnoozeSystemLeavingGate ==
    /\ Runs("snooze")
    /\ IF snoozeEvents = 0
       THEN /\ emitted' = {}
            /\ UNCHANGED <<alarmPlaying, alarmActive, numSnoozes, gameTime,
                           vibrateTimer, fadeEvents, snoozeEvents>>
       ELSE /\ alarmPlaying' = FALSE
            /\ alarmActive' = FALSE
            /\ numSnoozes' = numSnoozes + 1
            /\ gameTime' = Snooze(gameTime)
            /\ vibrateTimer' = SpeedUp(vibrateTimer)
            /\ fadeEvents' = Append(fadeEvents, "Out")
            /\ snoozeEvents' = 0
            /\ emitted' = {"alarm_stop", "fade_out"}
    /\ UNCHANGED <<gameState, delta, inputAllowed, validPressPosition, missTimer,
                   tweenEvents, overlay, cmdFade, phone, phoneCmd, failed, summaries,
                   sinceMiss, lastHit,
                   hitTest,
                   keyboard, handJoint, armJoint, armAnchor>>

\* a snooze_system that does not count the snooze
SnoozeSystemNotCounting ==
    /\ Runs("snooze")
    /\ IF snoozeEvents = 0
       THEN /\ emitted' = {}
            /\ UNCHANGED <<alarmPlaying, inputAllowed, alarmActive, gameTime,
                           vibrateTimer, fadeEvents, snoozeEvents>>
       ELSE /\ alarmPlaying' = FALSE
            /\ inputAllowed' = FALSE
            /\ alarmActive' = FALSE
            /\ gameTime' = Snooze(gameTime)
            /\ vibrateTimer' = SpeedUp(vibrateTimer)
            /\ fadeEvents' = Append(fadeEvents, "Out")
            /\ snoozeEvents' = 0
            /\ emitted' = {"alarm_stop", "fade_out"}
    /\ UNCHANGED <<gameState, delta, numSnoozes, validPressPosition, missTimer, tweenEvents,
                   overlay, cmdFade, phone, phoneCmd, failed, summaries, sinceMiss, lastHit,
                   hitTest, keyboard, handJoint, armJoint, armAnchor>>

\* snooze_system (game.rs:814-851): iter() marks every pending event as read
SnoozeSystem ==
    /\ Runs("snooze")
    /\ IF snoozeEvents = 0
       THEN /\ emitted' = {}
            /\ UNCHANGED <<alarmPlaying, inputAllowed, alarmActive, numSnoozes, gameTime,
                           vibrateTimer, fadeEvents, snoozeEvents>>
       ELSE /\ alarmPlaying' = FALSE
            /\ inputAllowed' = FALSE
            /\ alarmActive' = FALSE
            /\ numSnoozes' = numSnoozes + 1
            /\ gameTime' = Snooze(gameTime)
            /\ vibrateTimer' = SpeedUp(vibrateTimer)
            /\ fadeEvents' = Append(fadeEvents, "Out")
            /\ snoozeEvents' = 0
            /\ emitted' = {"alarm_stop", "fade_out"}
    /\ UNCHANGED <<gameState, delta, validPressPosition, missTimer, tweenEvents,
                   overlay, cmdFade, phone, phoneCmd, failed, summaries, sinceMiss, lastHit,
                   hitTest,
                   keyboard, handJoint, armJoint, armAnchor>>

\* an anchor sent to the retraction limit instead of its starting position
ResetArmAnchorToRetractionLimit(position) ==
    IF position.exists
    THEN [position EXCEPT !.x = ARM_RETRACTION_LIMIT,
                          !.y = ARM_ANCHOR_STARTING_POSITION_Y]
    ELSE position

\* "move the arm anchor back" (game.rs:875-879), for each ArmAnchor
ResetArmAnchor(position) ==
    IF position.exists
    THEN [position EXCEPT !.x = ARM_ANCHOR_STARTING_POSITION_X,
                          !.y = ARM_ANCHOR_STARTING_POSITION_Y]
    ELSE position

\* a sleep_system that advances the clock when the fade-out has finished
SleepSystemAdvancingClock ==
    /\ Runs("sleep")
    /\ tweenEvents' = {}
    /\ IF FADE_OUT_TWEEN_COMPLETED \in tweenEvents
       THEN /\ alarmPlaying' = TRUE
            /\ inputAllowed' = TRUE
            /\ alarmActive' = TRUE
            /\ gameTime' = Snooze(gameTime)
            /\ armAnchor' = ResetArmAnchor(armAnchor)
            /\ fadeEvents' = Append(fadeEvents, "In")
            /\ emitted' = {"alarm_start", "fade_in", "woke"}
                           \cup (IF ResetArmAnchor(armAnchor) # armAnchor
                                 THEN {"anchor_back"} ELSE {})
       ELSE /\ emitted' = {}
            /\ UNCHANGED <<alarmPlaying, inputAllowed, alarmActive, fadeEvents, gameTime,
                           armAnchor>>
    /\ UNCHANGED <<gameState, delta, numSnoozes, validPressPosition,
                   missTimer, vibrateTimer, snoozeEvents, overlay, cmdFade, phone,
                   phoneCmd, failed, summaries, sinceMiss, lastHit,
                   hitTest, keyboard, handJoint, armJoint>>

\* a sleep_system that waits for the fade-in's completion tag
SleepSystemOnFadeIn ==
    /\ Runs("sleep")
    /\ tweenEvents' = {}
    /\ IF FADE_IN_TWEEN_COMPLETED \in tweenEvents
       THEN /\ alarmPlaying' = TRUE
            /\ inputAllowed' = TRUE
            /\ alarmActive' = TRUE
            /\ armAnchor' = ResetArmAnchor(armAnchor)
            /\ fadeEvents' = Append(fadeEvents, "In")
            /\ emitted' = {"alarm_start", "fade_in", "woke"}
                           \cup (IF ResetArmAnchor(armAnchor) # armAnchor
                                 THEN {"anchor_back"} ELSE {})
       ELSE /\ emitted' = {}
            /\ UNCHANGED <<alarmPlaying, inputAllowed, alarmActive, fadeEvents, armAnchor>>
    /\ UNCHANGED <<gameState, delta, gameTime, numSnoozes, validPressPosition,
                   missTimer, vibrateTimer, snoozeEvents, overlay, cmdFade, phone,
                   phoneCmd, failed, summaries, sinceMiss, lastHit,
                   hitTest, keyboard, handJoint, armJoint>>

\* a sleep_system that does not look at the completion tag
SleepSystemOnAnyTag ==
    /\ Runs("sleep")
    /\ tweenEvents' = {}
    /\ IF tweenEvents # {}
       THEN /\ alarmPlaying' = TRUE
            /\ inputAllowed' = TRUE
            /\ alarmActive' = TRUE
            /\ armAnchor' = ResetArmAnchor(armAnchor)
            /\ fadeEvents' = Append(fadeEvents, "In")
            /\ emitted' = {"alarm_start", "fade_in", "woke"}
                           \cup (IF ResetArmAnchor(armAnchor) # armAnchor
                                 THEN {"anchor_back"} ELSE {})
       ELSE /\ emitted' = {}
            /\ UNCHANGED <<alarmPlaying, inputAllowed, alarmActive, fadeEvents, armAnchor>>
    /\ UNCHANGED <<gameState, delta, gameTime, numSnoozes, validPressPosition,
                   missTimer, vibrateTimer, snoozeEvents, overlay, cmdFade, phone,
                   phoneCmd, failed, summaries, sinceMiss, lastHit,
                   hitTest, keyboard, handJoint, armJoint>>

\* sleep_system (game.rs:854-900): the body runs for each unread
\* FADE_OUT_TWEEN_COMPLETED; other tags are skipped
SleepSystem ==
    /\ Runs("sleep")
    /\ tweenEvents' = {}
    /\ IF FADE_OUT_TWEEN_COMPLETED \in tweenEvents
       THEN /\ alarmPlaying' = TRUE
            /\ inputAllowed' = TRUE
            /\ alarmActive' = TRUE
            /\ armAnchor' = ResetArmAnchor(armAnchor)
            /\ fadeEvents' = Append(fadeEvents, "In")
            /\ emitted' = {"alarm_start", "fade_in", "woke"}
                           \cup (IF ResetArmAnchor(armAnchor) # armAnchor
                                 THEN {"anchor_back"} ELSE {})
       ELSE /\ emitted' = {}
            /\ UNCHANGED <<alarmPlaying, inputAllowed, alarmActive, fadeEvents, armAnchor>>
    /\ UNCHANGED <<gameState, delta, gameTime, numSnoozes, validPressPosition,
                   missTimer, vibrateTimer, snoozeEvents, overlay, cmdFade, phone,
                   phoneCmd, failed, summaries, sinceMiss, lastHit,
                   hitTest, keyboard, handJoint, armJoint>>

\* a vibrate_phone that draws the end position around the origin
VibratePhoneAroundOrigin(start_position, dx, dy) ==
    [start_position EXCEPT !.x = dx, !.y = dy]

\* vibrate_phone (game.rs:927-973): the end position of the queued tween,
\* Vec3::new(end_x, end_y, start_position.z), dx and dy being the distances
\* the two gen_range calls drew
VibratePhone(start_position, dx, dy) ==
    [start_position EXCEPT !.x = @ + dx, !.y = @ + dy]

\* a vibration_system without the early return on an inactive alarm
VibrationSystemIgnoringAlarm ==
    /\ Runs("vibration")
    /\ LET r == TimerTick(vibrateTimer, delta)
       IN  /\ vibrateTimer' = r.timer
           /\ IF r.finished /\ phone.exists
              THEN \E dx \in XOffsets, dy \in YOffsets :
                      /\ phoneCmd' = [phoneCmd EXCEPT
                             !.insert = TRUE,
                             !.end = VibratePhone(phone.pos, dx, dy)]
                      /\ emitted' = {"vibrate"}
              ELSE /\ emitted' = {}
                   /\ UNCHANGED phoneCmd
    /\ UNCHANGED <<gameState, delta, inputAllowed, alarmActive, gameTime, numSnoozes,
                   validPressPosition, missTimer, snoozeEvents, fadeEvents, tweenEvents,
                   overlay, cmdFade, phone, alarmPlaying, failed, summaries, sinceMiss, lastHit,
                   hitTest,
                   keyboard, handJoint, armJoint, armAnchor>>

\* vibration_system (game.rs:903-924)
VibrationSystem ==
    /\ Runs("vibration")
    /\ IF ~alarmActive
       THEN /\ emitted' = {}
            /\ UNCHANGED <<vibrateTimer, phoneCmd>>
       ELSE LET r == TimerTick(vibrateTimer, delta)
            IN  /\ vibrateTimer' = r.timer
                /\ IF r.finished /\ phone.exists
                   THEN \E dx \in XOffsets, dy \in YOffsets :
                           /\ phoneCmd' = [phoneCmd EXCEPT
                                  !.insert = TRUE,
                                  !.end = VibratePhone(phone.pos, dx, dy)]
                           /\ emitted' = {"vibrate"}
                   ELSE /\ emitted' = {}
                        /\ UNCHANGED phoneCmd
    /\ UNCHANGED <<gameState, delta, inputAllowed, alarmActive, gameTime, numSnoozes,
                   validPressPosition, missTimer, snoozeEvents, fadeEvents, tweenEvents,
                   overlay, cmdFade, phone, alarmPlaying, failed, summaries, sinceMiss, lastHit,
                   hitTest,
                   keyboard, handJoint, armJoint, armAnchor>>

\* show_game_over_screen (game.rs:1003-1055): the summary text's two values
ShowGameOverScreen(time, num_snoozes) == [time |-> time, snoozes |-> num_snoozes]

\* a table_bounds_system that does not despawn the phone
TableBoundsSystemKeepingPhone ==
    /\ Runs("table_bounds")
    /\ IF phone.exists /\ OffTable(phone.global)
       THEN /\ inputAllowed' = FALSE
            /\ alarmActive' = FALSE
            /\ summaries' = Append(summaries, ShowGameOverScreen(gameTime, numSnoozes))
            /\ failed' = TRUE
            /\ emitted' = {"drop_sound", "summary"}
       ELSE /\ emitted' = {}
            /\ UNCHANGED <<inputAllowed, alarmActive, summaries, failed>>
    /\ UNCHANGED <<gameState, delta, gameTime, numSnoozes, validPressPosition,
                   missTimer, vibrateTimer, snoozeEvents, fadeEvents, tweenEvents,
                   overlay, cmdFade, phone, phoneCmd, alarmPlaying, sinceMiss, lastHit,
                   hitTest,
                   keyboard, handJoint, armJoint, armAnchor>>

\* table_bounds_system (game.rs:976-1001)
TableBoundsSystem ==
    /\ Runs("table_bounds")
    /\ IF phone.exists /\ OffTable(phone.global)
       THEN /\ inputAllowed' = FALSE
            /\ alarmActive' = FALSE
            /\ phoneCmd' = [phoneCmd EXCEPT !.despawn = TRUE]
            /\ summaries' = Append(summaries, ShowGameOverScreen(gameTime, numSnoozes))
            /\ failed' = TRUE
            /\ emitted' = {"drop_sound", "summary"}
       ELSE /\ emitted' = {}
            /\ UNCHANGED <<inputAllowed, alarmActive, phoneCmd, summaries, failed>>
    /\ UNCHANGED <<gameState, delta, gameTime, numSnoozes, validPressPosition,
                   missTimer, vibrateTimer, snoozeEvents, fadeEvents, tweenEvents,
                   overlay, cmdFade, phone, alarmPlaying, sinceMiss, lastHit,
                   hitTest,
                   keyboard, handJoint, armJoint, armAnchor>>

-----------------------------------------------------------------------------
(* Frame boundary and application states *)

\* end of the update stage: the queued commands are applied (insert before
\* despawn, the order in which the systems were added), then the transforms
\* are propagated and the next frame starts with a new delta
EndTick ==
    /\ ran = Systems
    /\ ran' = {}
    /\ delta' \in FrameDeltas(vibrateTimer.duration)
    /\ sinceMiss' = IF sinceMiss + delta' >= MISS_PENALTY_SECONDS
                    THEN MISS_PENALTY_SECONDS
                    ELSE sinceMiss + delta'
    /\ overlay' = IF cmdFade # 0 /\ overlay.exists
                  THEN [exists |-> TRUE, tag |-> cmdFade, ended |-> FALSE]
                  ELSE overlay
    /\ cmdFade' = 0
    /\ phone' = IF ~phone.exists \/ phoneCmd.despawn
                THEN NoPhone
                ELSE LET p == IF phoneCmd.insert
                              THEN [phone EXCEPT !.animating = TRUE, !.end = phoneCmd.end]
                              ELSE phone
                     IN  [p EXCEPT !.global = p.pos]
    /\ phoneCmd' = NoPhoneCmd
    /\ lastHit' = [lastHit EXCEPT !.tick = FALSE]
    /\ emitted' = {}
    /\ UNCHANGED <<gameState, inputAllowed, alarmActive, gameTime, numSnoozes,
                   validPressPosition, missTimer, vibrateTimer, snoozeEvents, fadeEvents,
                   tweenEvents, alarmPlaying, failed, summaries,
                   hitTest,
                   keyboard, handJoint, armJoint, armAnchor>>

\* start_button_system (menu.rs:120-129): the click is handled in a frame of
\* the menu, here after the systems of game.rs have run in it
StartButtonSystem ==
    /\ ran = Systems
    /\ gameState = "Menu"
    /\ gameState' = "GameLoading"
    /\ emitted' = {}
    /\ UNCHANGED <<ran, delta, inputAllowed, alarmActive, gameTime, numSnoozes,
                   validPressPosition, missTimer, vibrateTimer, snoozeEvents, fadeEvents,
                   tweenEvents, overlay, cmdFade, phone, phoneCmd, alarmPlaying,
                   failed, summaries, sinceMiss, lastHit,
                   hitTest,
                   keyboard, handJoint, armJoint, armAnchor>>

\* the asset loader continues to GameState::Game (game.rs:73-77), whose
\* on_enter set runs game_setup (game.rs:234-562) and alarm_sound_system
\* (game.rs:1057-1073)
EnterGame ==
    /\ ran = {}
    /\ gameState = "GameLoading"
    /\ gameState' = "Game"
    /\ overlay' = [exists |-> TRUE, tag |-> 0, ended |-> FALSE]
    /\ phone' = [exists |-> TRUE, pos |-> Origin, global |-> Origin,
                 animating |-> FALSE, end |-> Origin]
    /\ armAnchor' = ArmAnchorSpawned
    /\ armJoint' = ArmJointSpawned
    /\ handJoint' = HandJointSpawned
    /\ fadeEvents' = Append(fadeEvents, "In")
    /\ alarmPlaying' = alarmActive
    /\ emitted' = {"fade_in"} \cup (IF alarmActive THEN {"alarm_start"} ELSE {"alarm_stop"})
    /\ UNCHANGED <<ran, delta, inputAllowed, alarmActive, gameTime, numSnoozes,
                   validPressPosition, missTimer, vibrateTimer, snoozeEvents,
                   tweenEvents, cmdFade, phoneCmd, failed, summaries, sinceMiss, lastHit,
                   hitTest, keyboard>>

Next ==
    \/ AnimatorUi
    \/ AnimatorTransform
    \/ FadeSystem
    \/ ValidPressPositionSystem
    \/ PressSystem
    \/ MissPenaltySystem
    \/ SnoozeSystem
    \/ SleepSystem
    \/ VibrationSystem
    \/ TableBoundsSystem
    \/ EndTick
    \/ StartButtonSystem
    \/ EnterGame

Spec == Init /\ [][Next]_vars

\* the step of component_animator_system::<UiColor> in which the tween on the
\* overlay reaches its end and reports it
FadeCompletes == AnimatorUi /\ overlay'.ended /\ ~overlay.ended

\* snooze cycles followed to their end in the runs that state progress
MaxCycles == 1

\* the frames of the game with hits offered for MaxCycles snoozes
CycleNext == Next /\ ("snooze_event" \in emitted' => numSnoozes < MaxCycles)

\* Frames keep coming (the engine's loop runs every system once per frame)
\* and a tween that stays on the overlay reaches its duration (FADE_IN_TIME,
\* FADE_OUT_TIME, game.rs:15-16).
SpecCycle ==
    Init /\ [][CycleNext]_vars /\ WF_vars(CycleNext) /\ SF_vars(FadeCompletes /\ CycleNext)

-----------------------------------------------------------------------------
(* The clock alone: GameTime::snooze applied any number of times to every   *)
(* valid clock value.                                                       *)

ValidClocks == [hour : 0..(HOURS_PER_DAY - 1), minute : 0..(MINUTES_PER_HOUR - 1)]

ClockInit ==
    /\ gameState = "Game"
    /\ ran = {}
    /\ delta = 2 * (VIBRATION_DELAY_SECONDS \div 3)
    /\ gameTime \in ValidClocks
    /\ validPressPosition = FALSE
    /\ inputAllowed = TRUE
    /\ alarmActive = TRUE
    /\ vibrateTimer = TimerFromSeconds(VIBRATION_DELAY_SECONDS, TRUE)
    /\ missTimer = TimerFromSeconds(MISS_PENALTY_SECONDS, FALSE)
    /\ numSnoozes = 0
    /\ snoozeEvents = 0
    /\ fadeEvents = <<>>
    /\ tweenEvents = {}
    /\ overlay = NoOverlay
    /\ cmdFade = 0
    /\ phone = NoPhone
    /\ phoneCmd = NoPhoneCmd
    /\ alarmPlaying = FALSE
    /\ emitted = {}
    /\ failed = FALSE
    /\ summaries = <<>>
    /\ sinceMiss = MISS_PENALTY_SECONDS
    /\ lastHit = [time |-> STARTING_TIME, snoozes |-> 0, tick |-> FALSE]
    /\ hitTest = NoHitTest
    /\ keyboard = {}
    /\ handJoint = HandJointSpawned
    /\ armJoint = ArmJointSpawned
    /\ armAnchor = ArmAnchorSpawned

\* time.snooze() (game.rs:841)
ClockSnooze ==
    /\ gameTime' = Snooze(gameTime)
    /\ emitted' = {"snoozed"}
    /\ UNCHANGED <<gameState, ran, delta, inputAllowed, alarmActive, numSnoozes,
                   validPressPosition, missTimer, vibrateTimer, snoozeEvents, fadeEvents,
                   tweenEvents, overlay, cmdFade, phone, phoneCmd, alarmPlaying,
                   failed, summaries, sinceMiss, lastHit,
                   hitTest,
                   keyboard, handJoint, armJoint, armAnchor>>

ClockNext == ClockSnooze

SpecClock == ClockInit /\ [][ClockNext]_vars

-----------------------------------------------------------------------------
(* The data a snooze updates: the part of snooze_system that counts the     *)
(* snooze, advances the clock and shortens the vibration interval           *)
(* (game.rs:837-847), applied repeatedly from the values the resources are  *)
(* inserted with, for every valid clock.  The interval is kept in whole     *)
(* microseconds, rounded down.                                              *)

\* snoozes applied in one run
MaxSpeedUps == 12

SnoozeUpdates ==
    /\ numSnoozes < MaxSpeedUps
    /\ numSnoozes' = numSnoozes + 1
    /\ gameTime' = Snooze(gameTime)
    /\ vibrateTimer' = SpeedUp(vibrateTimer)
    /\ emitted' = {"snoozed"}
    /\ UNCHANGED <<gameState, ran, delta, inputAllowed, alarmActive,
                   validPressPosition, missTimer, snoozeEvents, fadeEvents,
                   tweenEvents, overlay, cmdFade, phone, phoneCmd, alarmPlaying,
                   failed, summaries, sinceMiss, lastHit,
                   hitTest,
                   keyboard, handJoint, armJoint, armAnchor>>

SnoozeUpdatesNext == SnoozeUpdates

SpecSnoozeUpdates == ClockInit /\ [][SnoozeUpdatesNext]_vars

-----------------------------------------------------------------------------
(* intersects alone: the function applied to two rectangles drawn from      *)
(* bounded sets of centers, scales and optional custom sizes.               *)

\* largest center coordinate of a rectangle under test
MaxHitCoord == 1

HitCoords == (-MaxHitCoord)..MaxHitCoord

\* doubled scales 0, 1, 2: the scales 0, 0.5 and 1
HitScales2 == {0, 1, 2}

HitSizes == {NoneSize, SomeSize(0, 0), SomeSize(1, 3), SomeSize(3, 1)}

HitTransforms == [x : HitCoords, y : HitCoords, sx2 : HitScales2, sy2 : HitScales2]

HitInit ==
    /\ gameState = "Game"
    /\ ran = {}
    /\ delta = 2 * (VIBRATION_DELAY_SECONDS \div 3)
    /\ gameTime = STARTING_TIME
    /\ validPressPosition = FALSE
    /\ inputAllowed = TRUE
    /\ alarmActive = TRUE
    /\ vibrateTimer = TimerFromSeconds(VIBRATION_DELAY_SECONDS, TRUE)
    /\ missTimer = TimerFromSeconds(MISS_PENALTY_SECONDS, FALSE)
    /\ numSnoozes = 0
    /\ snoozeEvents = 0
    /\ fadeEvents = <<>>
    /\ tweenEvents = {}
    /\ overlay = NoOverlay
    /\ cmdFade = 0
    /\ phone = NoPhone
    /\ phoneCmd = NoPhoneCmd
    /\ alarmPlaying = FALSE
    /\ emitted = {}
    /\ failed = FALSE
    /\ summaries = <<>>
    /\ sinceMiss = MISS_PENALTY_SECONDS
    /\ lastHit = [time |-> STARTING_TIME, snoozes |-> 0, tick |-> FALSE]
    /\ \E a \in HitTransforms, b \in HitTransforms, a_size \in HitSizes, b_size \in HitSizes :
          hitTest = [applied |-> FALSE, a |-> a, a_size |-> a_size,
                     b |-> b, b_size |-> b_size, result |-> FALSE]
    /\ keyboard = {}
    /\ handJoint = HandJointSpawned
    /\ armJoint = ArmJointSpawned
    /\ armAnchor = ArmAnchorSpawned

\* a call intersects(a, a_size, b, b_size)
HitTestCall ==
    /\ ~hitTest.applied
    /\ hitTest' = [hitTest EXCEPT
                      !.applied = TRUE,
                      !.result = Intersects(hitTest.a, hitTest.a_size,
                                            hitTest.b, hitTest.b_size)]
    /\ UNCHANGED <<gameState, ran, delta, inputAllowed, alarmActive, gameTime,
                   numSnoozes, validPressPosition, missTimer, vibrateTimer,
                   snoozeEvents, fadeEvents, tweenEvents, overlay, cmdFade, phone,
                   phoneCmd, alarmPlaying, emitted, failed, summaries, sinceMiss,
                   lastHit, keyboard, handJoint, armJoint, armAnchor>>

HitNext == HitTestCall

SpecIntersects == HitInit /\ [][HitNext]_vars

-----------------------------------------------------------------------------
(* table_bounds_system alone: the last system of a frame, run with the      *)
(* phone at, just inside and just beyond each table edge, in every round    *)
(* state (gate open or closed, alarm on or off, penalty running or not, no  *)
(* fade, a fade-out or a fade-in in flight), followed by the end of the     *)
(* frame.                                                                   *)

EdgePositions ==
    [x : {TABLE_EDGE_LEFT - 1, TABLE_EDGE_LEFT, 0, TABLE_EDGE_RIGHT, TABLE_EDGE_RIGHT + 1},
     y : {TABLE_EDGE_BOTTOM - 1, TABLE_EDGE_BOTTOM, 0, TABLE_EDGE_TOP, TABLE_EDGE_TOP + 1}]

BoundsInit ==
    /\ gameState = "Game"
    /\ ran = Systems \ {"table_bounds"}
    /\ delta = 2 * (VIBRATION_DELAY_SECONDS \div 3)
    /\ \E n \in 0..1 :
          /\ numSnoozes = n
          /\ gameTime = IF n = 0 THEN STARTING_TIME ELSE Snooze(STARTING_TIME)
          /\ vibrateTimer = IF n = 0
                            THEN TimerFromSeconds(VIBRATION_DELAY_SECONDS, TRUE)
                            ELSE SpeedUp(TimerFromSeconds(VIBRATION_DELAY_SECONDS, TRUE))
    /\ validPressPosition = FALSE
    /\ inputAllowed \in BOOLEAN
    /\ alarmActive \in BOOLEAN
    /\ alarmPlaying = alarmActive
    /\ missTimer \in {TimerFromSeconds(MISS_PENALTY_SECONDS, FALSE),
                      TimerTick(TimerFromSeconds(MISS_PENALTY_SECONDS, FALSE),
                                MISS_PENALTY_SECONDS).timer}
    /\ snoozeEvents = 0
    /\ fadeEvents = <<>>
    /\ tweenEvents = {}
    /\ \E tag \in {0, FADE_OUT_TWEEN_COMPLETED, FADE_IN_TWEEN_COMPLETED} :
          overlay = [exists |-> TRUE, tag |-> tag, ended |-> FALSE]
    /\ cmdFade = 0
    /\ \E p \in EdgePositions :
          phone = [exists |-> TRUE, pos |-> p, global |-> p, animating |-> FALSE,
                   end |-> p]
    /\ phoneCmd = NoPhoneCmd
    /\ emitted = {}
    /\ failed = FALSE
    /\ summaries = <<>>
    /\ sinceMiss = MISS_PENALTY_SECONDS
    /\ lastHit = [time |-> STARTING_TIME, snoozes |-> 0, tick |-> FALSE]
    /\ hitTest = NoHitTest
    /\ keyboard = {}
    /\ handJoint = HandJointSpawned
    /\ armJoint = ArmJointSpawned
    /\ armAnchor = ArmAnchorSpawned

BoundsNext ==
    \/ TableBoundsSystem
    \/ EndTick

SpecBounds == BoundsInit /\ [][BoundsNext]_vars

-----------------------------------------------------------------------------
(* A long round: snooze_system run once per snooze cycle from the values    *)
(* the resources are inserted with, for more snoozes than it takes the      *)
(* clock to pass midnight.  The rest of a cycle (the fade-out, sleep_system *)
(* and the next hit) is taken in one step.                                  *)

\* snoozes taken in one round
MaxRoundSnoozes == 150

RoundInit ==
    /\ gameState = "Game"
    /\ ran = Systems \ {"snooze"}
    /\ delta = 2 * (VIBRATION_DELAY_SECONDS \div 3)
    /\ gameTime = STARTING_TIME
    /\ validPressPosition = TRUE
    /\ inputAllowed = TRUE
    /\ alarmActive = TRUE
    /\ vibrateTimer = TimerFromSeconds(VIBRATION_DELAY_SECONDS, TRUE)
    /\ missTimer = TimerFromSeconds(MISS_PENALTY_SECONDS, FALSE)
    /\ numSnoozes = 0
    /\ snoozeEvents = 1
    /\ fadeEvents = <<>>
    /\ tweenEvents = {}
    /\ overlay = [exists |-> TRUE, tag |-> 0, ended |-> FALSE]
    /\ cmdFade = 0
    /\ phone = [exists |-> TRUE, pos |-> Origin, global |-> Origin, animating |-> FALSE,
                end |-> Origin]
    /\ phoneCmd = NoPhoneCmd
    /\ alarmPlaying = TRUE
    /\ emitted = {}
    /\ failed = FALSE
    /\ summaries = <<>>
    /\ sinceMiss = MISS_PENALTY_SECONDS
    /\ lastHit = [time |-> STARTING_TIME, snoozes |-> 0, tick |-> TRUE]
    /\ hitTest = NoHitTest
    /\ keyboard = {}
    /\ handJoint = HandJointSpawned
    /\ armJoint = ArmJointSpawned
    /\ armAnchor = ArmAnchorSpawned

\* from the snooze to the next hit: the fade-out finishes, sleep_system turns
\* the alarm on and opens the gate, press_system accepts a hit
NextCycle ==
    /\ ran = Systems
    /\ ~alarmActive
    /\ numSnoozes < MaxRoundSnoozes
    /\ ran' = Systems \ {"snooze"}
    /\ alarmActive' = TRUE
    /\ inputAllowed' = TRUE
    /\ alarmPlaying' = TRUE
    /\ fadeEvents' = <<>>
    /\ snoozeEvents' = 1
    /\ lastHit' = [time |-> gameTime, snoozes |-> numSnoozes, tick |-> TRUE]
    /\ emitted' = {"key_press", "hit_sound", "snooze_event"}
    /\ UNCHANGED <<gameState, delta, gameTime, numSnoozes, validPressPosition, missTimer,
                   vibrateTimer, tweenEvents, overlay, cmdFade, phone, phoneCmd, failed,
                   summaries, sinceMiss, hitTest, keyboard, handJoint, armJoint, armAnchor>>

RoundNext ==
    \/ SnoozeSystem
    \/ NextCycle

SpecRound == RoundInit /\ [][RoundNext]_vars

-----------------------------------------------------------------------------
(* vibrate_phone alone: one call for a phone at, just inside and just       *)
(* beyond each table edge, with distances from both ends and the inside of  *)
(* the half-open range gen_range draws from, on each axis.                  *)

\* distances drawn out of [-MAX_VIBRATE_TRANSLATION, MAX_VIBRATE_TRANSLATION)
VibrateDistances ==
    {-MAX_VIBRATE_TRANSLATION, -1, 0, MAX_VIBRATE_TRANSLATION - 1}

\* z of the phone's translation (game.rs:270)
PhoneZ == 1

VibrateInit ==
    /\ gameState = "Game"
    /\ ran = {}
    /\ delta = 2 * (VIBRATION_DELAY_SECONDS \div 3)
    /\ gameTime = STARTING_TIME
    /\ validPressPosition = FALSE
    /\ inputAllowed = TRUE
    /\ alarmActive = TRUE
    /\ vibrateTimer = TimerFromSeconds(VIBRATION_DELAY_SECONDS, TRUE)
    /\ missTimer = TimerFromSeconds(MISS_PENALTY_SECONDS, FALSE)
    /\ numSnoozes = 0
    /\ snoozeEvents = 0
    /\ fadeEvents = <<>>
    /\ tweenEvents = {}
    /\ overlay = [exists |-> TRUE, tag |-> 0, ended |-> FALSE]
    /\ cmdFade = 0
    /\ \E p \in EdgePositions :
          LET t == [x |-> p.x, y |-> p.y, z |-> PhoneZ]
          IN  phone = [exists |-> TRUE, pos |-> t, global |-> t, animating |-> FALSE,
                       end |-> t]
    /\ phoneCmd = NoPhoneCmd
    /\ alarmPlaying = TRUE
    /\ emitted = {}
    /\ failed = FALSE
    /\ summaries = <<>>
    /\ sinceMiss = MISS_PENALTY_SECONDS
    /\ lastHit = [time |-> STARTING_TIME, snoozes |-> 0, tick |-> FALSE]
    /\ hitTest = NoHitTest
    /\ keyboard = {}
    /\ handJoint = HandJointSpawned
    /\ armJoint = ArmJointSpawned
    /\ armAnchor = ArmAnchorSpawned

\* the call vibrate_phone(commands, entity, translation, rotation) of
\* vibration_system (game.rs:916-921)
VibratePhoneCall ==
    /\ ~phoneCmd.insert
    /\ \E dx \in VibrateDistances, dy \in VibrateDistances :
          phoneCmd' = [phoneCmd EXCEPT !.insert = TRUE,
                                       !.end = VibratePhone(phone.pos, dx, dy)]
    /\ emitted' = {"vibrate"}
    /\ UNCHANGED <<gameState, ran, delta, inputAllowed, alarmActive, gameTime, numSnoozes,
                   validPressPosition, missTimer, vibrateTimer, snoozeEvents, fadeEvents,
                   tweenEvents, overlay, cmdFade, phone, alarmPlaying, failed, summaries,
                   sinceMiss, lastHit, hitTest, keyboard, handJoint, armJoint, armAnchor>>

VibrateNext == VibratePhoneCall

SpecVibrate == VibrateInit /\ [][VibrateNext]_vars

-----------------------------------------------------------------------------
(* Control: hand_rotation_system, arm_rotation_system and                   *)
(* arm_extension_system, which GamePlugin::build adds next to the gameplay  *)
(* systems (game.rs:109-111), run in any order with sleep_system, the one   *)
(* gameplay system that writes what they read or own (InputAllowed, the     *)
(* anchor's position).  The frames are taken in the middle of a round: the  *)
(* other systems have run, the gate is open or closed, completion events    *)
(* are pending or not, and the physics step moves the kinematic anchor by   *)
(* its velocity at the end of each frame.                                   *)

Control == {"hand_rotation", "arm_rotation", "arm_extension"}

\* keys held in a frame
KeyCombos ==
    {{}, {EXTEND_ARM_KEY}, {RETRACT_ARM_KEY}, {EXTEND_ARM_KEY, RETRACT_ARM_KEY},
     {ROTATE_HAND_DOWN_KEY, ROTATE_ARM_UP_KEY}, {ROTATE_HAND_UP_KEY, ROTATE_ARM_DOWN_KEY},
     {ROTATE_HAND_UP_KEY, ROTATE_HAND_DOWN_KEY, ROTATE_ARM_UP_KEY, ROTATE_ARM_DOWN_KEY,
      EXTEND_ARM_KEY}}

\* completion events pending at sleep_system in a frame
PendingCompletions ==
    {{}, {FADE_OUT_TWEEN_COMPLETED}, {FADE_IN_TWEEN_COMPLETED, VIBRATE_TWEEN_COMPLETED}}

\* rail coordinates of the anchor at the first frame: the starting one, and
\* one second of extension short of the extension limit
AnchorStarts ==
    {ARM_ANCHOR_STARTING_POSITION_X, ARM_EXTENSION_LIMIT + ARM_EXTENSION_CONTROL_POWER}

\* a hand_rotation_system that does not read InputAllowed
HandRotationSystemIgnoringGate ==
    /\ Runs("hand_rotation")
    /\ handJoint' =
          IF ~handJoint.exists
          THEN handJoint
          ELSE IF ROTATE_HAND_DOWN_KEY \in keyboard
               THEN MotorVelocity(handJoint, HAND_CONTROL_POWER, HAND_MOTOR_FACTOR)
               ELSE IF ROTATE_HAND_UP_KEY \in keyboard
                    THEN MotorVelocity(handJoint, -HAND_CONTROL_POWER, HAND_MOTOR_FACTOR)
                    ELSE MotorVelocity(handJoint, 0, HAND_MOTOR_FACTOR)
    /\ emitted' = {}
    /\ UNCHANGED <<gameState, delta, inputAllowed, alarmActive, gameTime, numSnoozes,
                   validPressPosition, missTimer, vibrateTimer, snoozeEvents, fadeEvents,
                   tweenEvents, overlay, cmdFade, phone, phoneCmd, alarmPlaying,
                   failed, summaries, sinceMiss, lastHit, hitTest,
                   keyboard, armJoint, armAnchor>>

\* hand_rotation_system (game.rs:633-661)
HandRotationSystem ==
    /\ Runs("hand_rotation")
    /\ handJoint' =
          IF ~handJoint.exists
          THEN handJoint
          ELSE IF ROTATE_HAND_DOWN_KEY \in keyboard /\ inputAllowed
               THEN MotorVelocity(handJoint, HAND_CONTROL_POWER, HAND_MOTOR_FACTOR)
               ELSE IF ROTATE_HAND_UP_KEY \in keyboard /\ inputAllowed
                    THEN MotorVelocity(handJoint, -HAND_CONTROL_POWER, HAND_MOTOR_FACTOR)
                    ELSE MotorVelocity(handJoint, 0, HAND_MOTOR_FACTOR)
    /\ emitted' = {}
    /\ UNCHANGED <<gameState, delta, inputAllowed, alarmActive, gameTime, numSnoozes,
                   validPressPosition, missTimer, vibrateTimer, snoozeEvents, fadeEvents,
                   tweenEvents, overlay, cmdFade, phone, phoneCmd, alarmPlaying,
                   failed, summaries, sinceMiss, lastHit, hitTest,
                   keyboard, armJoint, armAnchor>>

\* arm_rotation_system (game.rs:664-692)
ArmRotationSystem ==
    /\ Runs("arm_rotation")
    /\ armJoint' =
          IF ~armJoint.exists
          THEN armJoint
          ELSE IF ROTATE_ARM_DOWN_KEY \in keyboard /\ inputAllowed
               THEN MotorVelocity(armJoint, ARM_CONTROL_POWER, ARM_MOTOR_FACTOR)
               ELSE IF ROTATE_ARM_UP_KEY \in keyboard /\ inputAllowed
                    THEN MotorVelocity(armJoint, -ARM_CONTROL_POWER, ARM_MOTOR_FACTOR)
                    ELSE MotorVelocity(armJoint, 0, ARM_MOTOR_FACTOR)
    /\ emitted' = {}
    /\ UNCHANGED <<gameState, delta, inputAllowed, alarmActive, gameTime, numSnoozes,
                   validPressPosition, missTimer, vibrateTimer, snoozeEvents, fadeEvents,
                   tweenEvents, overlay, cmdFade, phone, phoneCmd, alarmPlaying,
                   failed, summaries, sinceMiss, lastHit, hitTest,
                   keyboard, handJoint, armAnchor>>

\* an arm_extension_system without the two limits
ArmExtensionSystemWithoutLimits ==
    /\ Runs("arm_extension")
    /\ armAnchor' =
          IF ~armAnchor.exists
          THEN armAnchor
          ELSE IF EXTEND_ARM_KEY \in keyboard /\ inputAllowed
               THEN [armAnchor EXCEPT !.linvel = [x |-> -ARM_EXTENSION_CONTROL_POWER, y |-> 0]]
               ELSE IF RETRACT_ARM_KEY \in keyboard /\ inputAllowed
                    THEN [armAnchor EXCEPT
                             !.linvel = [x |-> ARM_EXTENSION_CONTROL_POWER, y |-> 0]]
                    ELSE [armAnchor EXCEPT !.linvel = [x |-> 0, y |-> 0]]
    /\ emitted' = {}
    /\ UNCHANGED <<gameState, delta, inputAllowed, alarmActive, gameTime, numSnoozes,
                   validPressPosition, missTimer, vibrateTimer, snoozeEvents, fadeEvents,
                   tweenEvents, overlay, cmdFade, phone, phoneCmd, alarmPlaying,
                   failed, summaries, sinceMiss, lastHit, hitTest,
                   keyboard, handJoint, armJoint>>

\* arm_extension_system (game.rs:695-724)
ArmExtensionSystem ==
    /\ Runs("arm_extension")
    /\ armAnchor' =
          IF ~armAnchor.exists
          THEN armAnchor
          ELSE IF /\ EXTEND_ARM_KEY \in keyboard
                  /\ armAnchor.x > ARM_EXTENSION_LIMIT
                  /\ inputAllowed
               THEN [armAnchor EXCEPT !.linvel = [x |-> -ARM_EXTENSION_CONTROL_POWER, y |-> 0]]
               ELSE IF /\ RETRACT_ARM_KEY \in keyboard
                       /\ armAnchor.x < ARM_RETRACTION_LIMIT
                       /\ inputAllowed
                    THEN [armAnchor EXCEPT
                             !.linvel = [x |-> ARM_EXTENSION_CONTROL_POWER, y |-> 0]]
                    ELSE [armAnchor EXCEPT !.linvel = [x |-> 0, y |-> 0]]
    /\ emitted' = {}
    /\ UNCHANGED <<gameState, delta, inputAllowed, alarmActive, gameTime, numSnoozes,
                   validPressPosition, missTimer, vibrateTimer, snoozeEvents, fadeEvents,
                   tweenEvents, overlay, cmdFade, phone, phoneCmd, alarmPlaying,
                   failed, summaries, sinceMiss, lastHit, hitTest,
                   keyboard, handJoint, armJoint>>

\* the physics step on the kinematic, velocity-based anchor (game.rs:375):
\* the translation advances by linvel times the step, in whole units
StepArmAnchor(a, dt) ==
    IF a.exists
    THEN [a EXCEPT !.x = a.x + (a.linvel.x * dt) \div 1000000,
                   !.y = a.y + (a.linvel.y * dt) \div 1000000]
    ELSE a

ControlInit ==
    /\ gameState = "Game"
    /\ ran = Systems \ {"sleep"}
    /\ delta = 2 * (VIBRATION_DELAY_SECONDS \div 3)
    /\ gameTime = Snooze(STARTING_TIME)
    /\ numSnoozes = 1
    /\ vibrateTimer = SpeedUp(TimerFromSeconds(VIBRATION_DELAY_SECONDS, TRUE))
    /\ validPressPosition = FALSE
    /\ inputAllowed \in BOOLEAN
    /\ alarmActive = FALSE
    /\ alarmPlaying = FALSE
    /\ missTimer = TimerTick(TimerFromSeconds(MISS_PENALTY_SECONDS, FALSE),
                             MISS_PENALTY_SECONDS).timer
    /\ snoozeEvents = 0
    /\ fadeEvents = <<>>
    /\ tweenEvents \in PendingCompletions
    /\ overlay = [exists |-> TRUE, tag |-> FADE_OUT_TWEEN_COMPLETED, ended |-> FALSE]
    /\ cmdFade = 0
    /\ phone = [exists |-> TRUE, pos |-> Origin, global |-> Origin, animating |-> FALSE,
                end |-> Origin]
    /\ phoneCmd = NoPhoneCmd
    /\ emitted = {}
    /\ failed = FALSE
    /\ summaries = <<>>
    /\ sinceMiss = MISS_PENALTY_SECONDS
    /\ lastHit = [time |-> STARTING_TIME, snoozes |-> 0, tick |-> FALSE]
    /\ hitTest = NoHitTest
    /\ keyboard \in KeyCombos
    /\ handJoint = HandJointSpawned
    /\ armJoint = ArmJointSpawned
    /\ \E x \in AnchorStarts : armAnchor = [ArmAnchorSpawned EXCEPT !.x = x]

\* end of a frame of the control systems: the physics step, then the next
\* frame's keys, pending completions and gate as the other systems left them
ControlEndTick ==
    /\ ran = Systems \cup Control
    /\ ran' = Systems \ {"sleep"}
    /\ armAnchor' = StepArmAnchor(armAnchor, delta)
    /\ keyboard' \in KeyCombos
    /\ tweenEvents' \in PendingCompletions
    /\ inputAllowed' \in BOOLEAN
    /\ fadeEvents' = <<>>
    /\ emitted' = {}
    /\ UNCHANGED <<gameState, delta, alarmActive, gameTime, numSnoozes,
                   validPressPosition, missTimer, vibrateTimer, snoozeEvents,
                   overlay, cmdFade, phone, phoneCmd, alarmPlaying,
                   failed, summaries, sinceMiss, lastHit, hitTest,
                   handJoint, armJoint>>

ControlNext ==
    \/ HandRotationSystem
    \/ ArmRotationSystem
    \/ ArmExtensionSystem
    \/ SleepSystem
    \/ ControlEndTick

SpecControl == ControlInit /\ [][ControlNext]_vars

-----------------------------------------------------------------------------
(* Properties *)

\* a fade has been requested and its completion has not yet been reported
FadeInFlight ==
    \/ fadeEvents # <<>>
    \/ cmdFade # 0
    \/ (overlay.exists /\ overlay.tag # 0 /\ ~overlay.ended)

\* the same for a fade-out, up to the step that processes its completion
FadeOutInFlight ==
    \/ (fadeEvents # <<>> /\ fadeEvents[Len(fadeEvents)] = "Out")
    \/ cmdFade = FADE_OUT_TWEEN_COMPLETED
    \/ (overlay.tag = FADE_OUT_TWEEN_COMPLETED /\ ~overlay.ended)
    \/ FADE_OUT_TWEEN_COMPLETED \in tweenEvents

\* C1: once the phone has left the table the input flag is false in every
\* later state.  Violated: miss_penalty_system sets it back to true when a
\* penalty that was running at the failure runs out (and sleep_system does
\* when a fade-out finishes after the failure).
C1_InputClosedAfterFailure == failed => ~inputAllowed

\* C2: after the failure the alarm stays inactive and the clock and the
\* snooze count keep the values shown in the summary.  Violated: sleep_system
\* re-activates the alarm when a fade-out finishes after the failure, and
\* snooze_system consumes a snooze event that was pending at the failure.
C2_GameOverIsTerminal ==
    failed => /\ ~alarmActive
              /\ gameTime = summaries[1].time
              /\ numSnoozes = summaries[1].snoozes

\* C3: a round shows at most one game-over summary; it is shown by the time
\* table_bounds_system has run in a tick that sees the phone off the table,
\* and no later run of table_bounds_system shows another.
C3_OneSummary ==
    /\ Len(summaries) <= 1
    /\ (phone.exists /\ OffTable(phone.global) /\ "table_bounds" \in ran)
          => Len(summaries) = 1
    /\ (Len(summaries) = 1) <=> failed

\* C3 witness: table_bounds_system has run again in a tick after the failure
C3_Witness ==
    /\ Len(summaries) = 1
    /\ ~phone.exists
    /\ gameState = "Game"
    /\ "table_bounds" \in ran

\* C4: while the miss timer is running (started, not finished) the input flag
\* is false.  Violated by the initial state: the resources are inserted as a
\* running MissTimer and InputAllowed(true).
C4_PenaltyClosesGate == (~missTimer.finished) => ~inputAllowed

C6_LockedPressIsNoOp ==
    [][("press" \notin ran /\ "press" \in ran' /\ ~inputAllowed)
          => /\ emitted' \subseteq {"key_press"}
             /\ UNCHANGED <<gameState, delta, inputAllowed, alarmActive, gameTime,
                            numSnoozes, validPressPosition, missTimer, vibrateTimer,
                            snoozeEvents, fadeEvents, tweenEvents, overlay, cmdFade,
                            phone, phoneCmd, alarmPlaying, failed, summaries,
                            sinceMiss, lastHit, hitTest,
                            keyboard, handJoint, armJoint, armAnchor>>]_vars

\* C6 witness: the key was pressed over the button while the flag was false
C6_Witness ==
    /\ gameState = "Game"
    /\ "press" \in ran
    /\ emitted = {"key_press"}
    /\ validPressPosition
    /\ ~inputAllowed

\* C7: during a round, while less than MISS_PENALTY_SECONDS of frame time
\* have passed since a miss the input flag is false, and the snooze count and
\* the clock do not change.  Violated: miss_penalty_system, run after
\* press_system in the frame of the miss, ticks the fresh timer with that
\* frame's delta, and snooze_system may consume a snooze event sent before
\* the miss.
C7_MissPenalty ==
    [][(gameState = "Game" /\ sinceMiss' < MISS_PENALTY_SECONDS)
          => /\ ~inputAllowed'
             /\ (sinceMiss < MISS_PENALTY_SECONDS)
                   => (numSnoozes' = numSnoozes /\ gameTime' = gameTime)]_vars

\* C8: when the completion of a fade-out is processed the clock is seven
\* minutes past, and the count one above, their values at the last accepted
\* hit; at every frame boundary between the hit and that step the alarm is
\* inactive; when a fade-in completes outside such a transition the alarm is
\* active.  Violated: a hit accepted after snooze_system has run in its frame
\* leaves the alarm active and the gate open over the frame boundary.
C8_HitScenario ==
    /\ ("woke" \in emitted)
          => /\ gameTime = Snooze(lastHit.time)
             /\ numSnoozes = lastHit.snoozes + 1
    /\ (ran = {} /\ ~failed /\ (snoozeEvents > 0 \/ FadeOutInFlight))
          => ~alarmActive
    /\ (FADE_IN_TWEEN_COMPLETED \in tweenEvents /\ ~failed /\ snoozeEvents = 0
           /\ ~FadeOutInFlight)
          => alarmActive

\* C9 as stated: the clock changes only in the step that processes a finished
\* fade-out.  Violated: snooze_system advances it as it requests the fade-out.
C9_ClockChangesAtFadeOutFinished ==
    [][(gameTime' # gameTime) => ("woke" \in emitted')]_vars

\* C9: the clock changes only in the step in which snooze_system consumes a
\* snooze event and requests the fade-out, and there by one snooze; the step
\* that processes the finished fade-out leaves the clock as it is.
C9_ClockChangesInSnoozeStep ==
    [][/\ (gameTime' # gameTime)
             => /\ snoozeEvents > 0
                /\ "fade_out" \in emitted'
                /\ gameTime' = Snooze(gameTime)
       /\ ("fade_out" \in emitted') => (gameTime' # gameTime)
       /\ ("woke" \in emitted') => (gameTime' = gameTime)]_vars

\* C9 witness: the first fade-out is still running and the clock has advanced
C9_Witness ==
    /\ numSnoozes = 1
    /\ overlay.tag = FADE_OUT_TWEEN_COMPLETED
    /\ ~overlay.ended
    /\ gameTime = Snooze(STARTING_TIME)

\* C10: from every valid clock value, after any number of snoozes, the minute
\* is below MINUTES_PER_HOUR and the hour below HOURS_PER_DAY.
C10_ClockInRange ==
    /\ gameTime.minute \in 0..(MINUTES_PER_HOUR - 1)
    /\ gameTime.hour \in 0..(HOURS_PER_DAY - 1)

\* C10 witness: a snooze has carried the clock past midnight
C10_Witness ==
    /\ emitted = {"snoozed"}
    /\ gameTime.hour = 0
    /\ gameTime.minute < SNOOZE_MINUTES

\* minutes since midnight of a clock value, and the clock value of a number
\* of minutes since midnight
MinuteOfDay(t) == t.hour * MINUTES_PER_HOUR + t.minute
ClockOfMinute(m) == [hour |-> m \div MINUTES_PER_HOUR, minute |-> m % MINUTES_PER_HOUR]

\* C11: one snooze takes every valid clock value to the value seven minutes
\* later in a day of 24 * 60 minutes: ((hour * 60 + minute + 7) mod 1440)
\* split into hour and minute.
C11_SnoozeAddsSevenMinutes ==
    [][gameTime' = ClockOfMinute((MinuteOfDay(gameTime) + SNOOZE_MINUTES)
                                    % (HOURS_PER_DAY * MINUTES_PER_HOUR))]_vars

\* C11 witness: the snooze of 23:58 has given 0:05
C11_Witness ==
    /\ emitted = {"snoozed"}
    /\ gameTime = [hour |-> 0, minute |-> 5]

\* C12: starting from VIBRATION_DELAY_SECONDS, after any number of snoozes
\* the vibration interval is not below VIBRATE_TIME.  Violated: the speed-up
\* is applied whenever the interval is above VIBRATE_TIME, so the eleventh
\* snooze takes an interval of about 0.523 s to about 0.471 s.
C12_IntervalFloor == vibrateTimer.duration >= VIBRATE_TIME

\* the overlap of two axis-aligned rectangles, each with half-extents
\* (custom size * scale) / 2 about its center, in quarter units
ReferenceOverlap(a, a_size, b, b_size) ==
    LET a_w2 == UnwrapOrOne(a_size).x * a.sx2
        a_h2 == UnwrapOrOne(a_size).y * a.sy2
        b_w2 == UnwrapOrOne(b_size).x * b.sx2
        b_h2 == UnwrapOrOne(b_size).y * b.sy2
    IN  /\ 4 * a.x - a_w2 < 4 * b.x + b_w2
        /\ 4 * a.x + a_w2 > 4 * b.x - b_w2
        /\ 4 * a.y + a_h2 > 4 * b.y - b_h2
        /\ 4 * a.y - a_h2 < 4 * b.y + b_h2

\* a rectangle of zero width or zero height
ZeroSized(t, size) ==
    \/ UnwrapOrOne(size).x * t.sx2 = 0
    \/ UnwrapOrOne(size).y * t.sy2 = 0

\* C13: intersects(a, b) equals intersects(b, a) for every two rectangles.
\* Violated: the right edge of b is computed from b's height and the top and
\* bottom edges of b from b's scale alone, while a's edges are not.
C13_HitTestSymmetric ==
    hitTest.applied =>
        hitTest.result = Intersects(hitTest.b, hitTest.b_size, hitTest.a, hitTest.a_size)

\* C14: intersects equals the overlap test of the two rectangles whose
\* half-extents are (custom size * scale) / 2 on both axes.  Violated for the
\* same reason as C13.
C14_HitTestIsReference ==
    hitTest.applied =>
        hitTest.result = ReferenceOverlap(hitTest.a, hitTest.a_size,
                                          hitTest.b, hitTest.b_size)

\* C15: when either rectangle has zero width or zero height, intersects is
\* false.  Violated: the strict comparisons hold for a zero-sized rectangle
\* that lies inside the other.
C15_DegenerateIsNoOverlap ==
    (hitTest.applied /\ (\/ ZeroSized(hitTest.a, hitTest.a_size)
                         \/ ZeroSized(hitTest.b, hitTest.b_size)))
        => ~hitTest.result

\* C16: whenever press_system resolves a press (as a hit or as a miss) during
\* a round, valid_press_position_system has already run in the same frame.  Violated:
\* no order is declared between the two systems, and a press_system that
\* runs first reads the ValidPressPosition left by the previous frame.
C16_SameTickHitTest ==
    (gameState = "Game" /\ "hit_sound" \in emitted) => ("valid_press" \in ran)

\* C17: in the step of table_bounds_system, whatever the round state: if the
\* phone's position is beyond a table edge (x < left, x > right, y > top or
\* y < bottom) the input flag and the alarm flag are false afterwards, the
\* despawn of the phone is queued, the drop sound is played and a summary
\* with the current clock and snooze count is shown; if the position is on or
\* inside the edges none of this happens.  At the end of the frame a queued
\* despawn removes the phone.
C17_FailureFromAnyState ==
    [][/\ ("table_bounds" \notin ran /\ "table_bounds" \in ran')
             => IF /\ phone.exists
                   /\ \/ phone.global.x < TABLE_EDGE_LEFT
                      \/ phone.global.x > TABLE_EDGE_RIGHT
                      \/ phone.global.y > TABLE_EDGE_TOP
                      \/ phone.global.y < TABLE_EDGE_BOTTOM
                THEN /\ ~inputAllowed'
                     /\ ~alarmActive'
                     /\ phoneCmd'.despawn
                     /\ "drop_sound" \in emitted'
                     /\ summaries' = Append(summaries, [time |-> gameTime,
                                                        snoozes |-> numSnoozes])
                ELSE /\ "drop_sound" \notin emitted'
                     /\ UNCHANGED <<inputAllowed, alarmActive, phoneCmd, summaries>>
       /\ (phoneCmd.despawn /\ ran' = {}) => ~phone'.exists]_vars

\* C17 witness: the phone left the table after a snooze and has been removed
C17_Witness ==
    /\ ran = {}
    /\ ~phone.exists
    /\ numSnoozes = 1
    /\ summaries = <<[time |-> Snooze(STARTING_TIME), snoozes |-> 1]>>
    /\ ~inputAllowed
    /\ ~alarmActive

\* the overlay carries a fade-out tween that has not completed
FadeOutRunning ==
    /\ overlay.exists
    /\ overlay.tag = FADE_OUT_TWEEN_COMPLETED
    /\ ~overlay.ended

\* C18: while a fade-out requested by a snooze runs on the overlay the alarm
\* is inactive and the alarm loop is not playing.  Violated: a second snooze
\* taken while the first fade-out runs requests a fade-out of its own, and
\* sleep_system switches the alarm back on when the first one completes.
C18_NoAlarmDuringFadeOut == FadeOutRunning => (~alarmActive /\ ~alarmPlaying)

\* C19: on every entry to the Game state the round state is the initial one:
\* gate open, alarm active, no snoozes, clock 8:00, vibration interval 1.5 s.
\* Violated: the resources are inserted once when the plugin is built and the
\* on_enter systems do not write them, so a press made in the menu that
\* closed the gate is still in force when the round begins.
C19_RoundResetOnEntry ==
    [][(gameState # "Game" /\ gameState' = "Game")
        => /\ inputAllowed'
           /\ alarmActive'
           /\ numSnoozes' = 0
           /\ gameTime' = STARTING_TIME
           /\ vibrateTimer'.duration = VIBRATION_DELAY_SECONDS]_vars

\* C20: a displacement of the phone is started only in a step taken with the
\* alarm active and the vibrate timer elapsing in that step; in a step taken
\* with the alarm inactive no displacement is started and the vibrate timer
\* does not advance (it is left as it is, or replaced by the shorter, fresh
\* timer of a snooze).
C20_VibrationOnlyWhileAlarmActive ==
    [][/\ (phoneCmd'.insert /\ ~phoneCmd.insert)
            => (alarmActive /\ TimerTick(vibrateTimer, delta).finished)
       /\ ~alarmActive
            => /\ phoneCmd'.insert => phoneCmd.insert
               /\ \/ vibrateTimer' = vibrateTimer
                  \/ /\ vibrateTimer'.elapsed = 0
                     /\ vibrateTimer'.duration < vibrateTimer.duration]_vars

\* vibration_system has run in a frame of a running fade-out, the alarm being
\* inactive: no displacement is queued for the phone on the table
C20_Witness ==
    /\ gameState = "Game"
    /\ FadeOutRunning
    /\ ~alarmActive
    /\ "vibration" \in ran
    /\ phone.exists
    /\ ~phoneCmd.insert
    /\ ~failed

\* the step of a system s: s joins the systems that ran in the frame
StepOf(s) == s \notin ran /\ s \in ran'

\* C21: in the step of arm_extension_system the anchor's velocity becomes
\* extending (negative x) only with the extend key held and the rail
\* coordinate above ARM_EXTENSION_LIMIT, retracting (positive x) only with the
\* retract key held and the coordinate below ARM_RETRACTION_LIMIT, and zero in
\* every other case; the velocity is one of the three values, for every set
\* of keys and every coordinate.
C21_AnchorRailClamp ==
    [][(StepOf("arm_extension") /\ armAnchor.exists)
          => LET extend == EXTEND_ARM_KEY \in keyboard /\ armAnchor.x > ARM_EXTENSION_LIMIT
                 retract == RETRACT_ARM_KEY \in keyboard /\ armAnchor.x < ARM_RETRACTION_LIMIT
                 v == armAnchor'.linvel
             IN  /\ v.x < 0 => extend
                 /\ v.x > 0 => retract
                 /\ (~extend /\ ~retract) => v = [x |-> 0, y |-> 0]
                 /\ v \in {[x |-> -ARM_EXTENSION_CONTROL_POWER, y |-> 0],
                           [x |-> ARM_EXTENSION_CONTROL_POWER, y |-> 0],
                           [x |-> 0, y |-> 0]}
                 /\ armAnchor'.x = armAnchor.x /\ armAnchor'.y = armAnchor.y]_vars

\* C21 witness: the extend key is held with the gate open and the anchor on
\* the extension limit, and arm_extension_system has left the anchor at rest
C21_Witness ==
    /\ "arm_extension" \in ran
    /\ "sleep" \notin ran
    /\ inputAllowed
    /\ EXTEND_ARM_KEY \in keyboard
    /\ armAnchor.x = ARM_EXTENSION_LIMIT
    /\ armAnchor.linvel = [x |-> 0, y |-> 0]

\* C22: a control system that runs with the input flag false sets its motor
\* target (hand, arm) or the anchor's velocity to zero whatever keys are
\* held; with the flag true the hand and arm targets are +power, -power or 0;
\* in both cases the motor factors are the constants.
C22_ControlInertWhileGateClosed ==
    [][/\ (StepOf("hand_rotation") /\ handJoint.exists)
            => /\ ~inputAllowed => handJoint'.target_vel = 0
               /\ handJoint'.target_vel \in {HAND_CONTROL_POWER, -HAND_CONTROL_POWER, 0}
               /\ handJoint'.factor = HAND_MOTOR_FACTOR
       /\ (StepOf("arm_rotation") /\ armJoint.exists)
            => /\ ~inputAllowed => armJoint'.target_vel = 0
               /\ armJoint'.target_vel \in {ARM_CONTROL_POWER, -ARM_CONTROL_POWER, 0}
               /\ armJoint'.factor = ARM_MOTOR_FACTOR
       /\ (StepOf("arm_extension") /\ armAnchor.exists /\ ~inputAllowed)
            => armAnchor'.linvel = [x |-> 0, y |-> 0]]_vars

\* C22 witness: all three control systems have run in a frame in which the
\* gate was closed and keys of each of them were held; the targets and the
\* anchor's velocity are zero
C22_Witness ==
    /\ Control \subseteq ran
    /\ "sleep" \notin ran
    /\ ~inputAllowed
    /\ {ROTATE_HAND_UP_KEY, ROTATE_ARM_UP_KEY, EXTEND_ARM_KEY} \subseteq keyboard
    /\ armAnchor.x > ARM_EXTENSION_LIMIT
    /\ handJoint.target_vel = 0
    /\ armJoint.target_vel = 0
    /\ armAnchor.linvel = [x |-> 0, y |-> 0]

\* C23: a press made with the input flag true plays the hit sound and takes
\* one of two branches on ValidPressPosition.  True: one snooze event is
\* sent, the flag and the miss timer stay as they are.  False: the flag
\* becomes false, the miss timer is a fresh one-shot timer of
\* MISS_PENALTY_SECONDS and no snooze event is sent.
C23_PressResolution ==
    [][(StepOf("press") /\ inputAllowed /\ "key_press" \in emitted')
          => /\ "hit_sound" \in emitted'
             /\ IF validPressPosition
                THEN /\ snoozeEvents' = snoozeEvents + 1
                     /\ "snooze_event" \in emitted'
                     /\ "miss" \notin emitted'
                     /\ missTimer' = missTimer
                     /\ inputAllowed'
                ELSE /\ ~inputAllowed'
                     /\ missTimer' = TimerFromSeconds(MISS_PENALTY_SECONDS, FALSE)
                     /\ "miss" \in emitted'
                     /\ "snooze_event" \notin emitted'
                     /\ snoozeEvents' = snoozeEvents]_vars

\* C23 witness: a hit was accepted in a round while the timer of an earlier
\* miss, run out since, is still in the resource
C23_Witness ==
    /\ gameState = "Game"
    /\ "press" \in ran
    /\ emitted = {"key_press", "hit_sound", "snooze_event"}
    /\ snoozeEvents = 1
    /\ inputAllowed
    /\ missTimer.finished
    /\ numSnoozes = 1

\* C24: the transition a hit causes (snooze_system closing the gate and
\* turning the alarm off) is not made before table_bounds_system and
\* vibration_system have run in the frame of the hit, so that they read it
\* in the next frame at the earliest.  Violated: the systems are unordered,
\* and snooze_system can read the event in the frame of the hit and ahead of
\* either of them.
C24_NextTickVisibility ==
    (gameState = "Game" /\ lastHit.tick /\ numSnoozes > lastHit.snoozes)
        => {"table_bounds", "vibration"} \subseteq ran

C26_SupersededFadeIsSilent ==
    [][(gameState = "Game" /\ StepOf("animator_ui") /\ overlay'.ended /\ ~overlay.ended)
          => (fadeEvents = <<>> /\ cmdFade = 0)]_vars

\* C27: the three completion tags are pairwise different, and a step of
\* sleep_system that reads completions none of which is the fade-out's (a
\* fade-in or a vibration has finished) leaves the input flag, the alarm, the
\* alarm sound, the clock, the snooze count, both timers and the anchor as
\* they are and sends no fade event.
C27_OnlyFadeOutDrivesCycle ==
    /\ Cardinality({FADE_OUT_TWEEN_COMPLETED, FADE_IN_TWEEN_COMPLETED,
                    VIBRATE_TWEEN_COMPLETED}) = 3
    /\ [][(StepOf("sleep") /\ tweenEvents # {}
                           /\ FADE_OUT_TWEEN_COMPLETED \notin tweenEvents)
             => /\ tweenEvents' = {}
                /\ UNCHANGED <<inputAllowed, alarmActive, alarmPlaying, gameTime,
                               numSnoozes, missTimer, vibrateTimer, armAnchor,
                               fadeEvents>>]_vars

\* C27 witness: in this frame a vibration has finished (the phone's Transform
\* is at the tween's end, its GlobalTransform not yet) and sleep_system has
\* read the completion during a miss penalty: the gate is still closed
C27_Witness ==
    /\ gameState = "Game"
    /\ "sleep" \in ran
    /\ tweenEvents = {}
    /\ phone.exists
    /\ ~phone.animating
    /\ phone.pos # phone.global
    /\ ~inputAllowed
    /\ alarmActive
    /\ ~missTimer.finished
    /\ "miss_penalty" \in ran

\* distance between two coordinates
Dist(a, b) == IF a >= b THEN a - b ELSE b - a

\* C28: the end position vibrate_phone chooses is within
\* MAX_VIBRATE_TRANSLATION of the start position on the x axis and on the y
\* axis and has the start position's z.
C28_DisplacementBound ==
    phoneCmd.insert
        => /\ Dist(phoneCmd.end.x, phone.pos.x) <= MAX_VIBRATE_TRANSLATION
           /\ Dist(phoneCmd.end.y, phone.pos.y) <= MAX_VIBRATE_TRANSLATION
           /\ phoneCmd.end.z = phone.pos.z

\* C28 witness: from the right table edge the phone is sent beyond the edge,
\* by different distances on the two axes
C28_Witness ==
    /\ phoneCmd.insert
    /\ phone.pos.x = TABLE_EDGE_RIGHT
    /\ phone.pos.y = 0
    /\ phoneCmd.end.x = TABLE_EDGE_RIGHT + MAX_VIBRATE_TRANSLATION - 1
    /\ phoneCmd.end.y = -MAX_VIBRATE_TRANSLATION
    /\ OffTable(phoneCmd.end)
    /\ ~OffTable(phone.pos)

\* C29: the step of sleep_system that processes a fade-out-finished event
\* puts the anchor on (ARM_ANCHOR_STARTING_POSITION_X,
\* ARM_ANCHOR_STARTING_POSITION_Y) from any position, and no other system
\* changes the anchor's position: apart from that step it moves only in the
\* physics step at the end of a frame, by its velocity.
C29_AnchorReset ==
    [][/\ (StepOf("sleep") /\ FADE_OUT_TWEEN_COMPLETED \in tweenEvents /\ armAnchor.exists)
            => /\ armAnchor'.x = ARM_ANCHOR_STARTING_POSITION_X
               /\ armAnchor'.y = ARM_ANCHOR_STARTING_POSITION_Y
               /\ armAnchor'.linvel = armAnchor.linvel
       /\ (armAnchor.exists /\ (armAnchor'.x # armAnchor.x \/ armAnchor'.y # armAnchor.y))
            => \/ StepOf("sleep") /\ FADE_OUT_TWEEN_COMPLETED \in tweenEvents
               \/ /\ ran = Systems \cup Control
                  /\ ran' # ran
                  /\ armAnchor' = StepArmAnchor(armAnchor, delta)]_vars

\* C29 witness: sleep_system has just brought back an anchor that was
\* elsewhere on the rail
C29_Witness ==
    /\ {"woke", "anchor_back"} \subseteq emitted
    /\ armAnchor.x = ARM_ANCHOR_STARTING_POSITION_X
    /\ armAnchor.y = ARM_ANCHOR_STARTING_POSITION_Y
    /\ armAnchor.linvel.x < 0

\* C30: in a round started at STARTING_TIME with no snoozes the clock, in
\* minutes of the day, is the starting minute plus SNOOZE_MINUTES for each
\* counted snooze, modulo the minutes of a day, and the snooze count never
\* decreases.
C30_ClockFollowsCount ==
    /\ [](MinuteOfDay(gameTime) =
             (MinuteOfDay(STARTING_TIME) + SNOOZE_MINUTES * numSnoozes)
                 % (HOURS_PER_DAY * MINUTES_PER_HOUR))
    /\ [][numSnoozes' >= numSnoozes]_vars

\* C30 witness: the first snooze that ends after midnight, the 138th, has
\* been counted and the clock shows 00:06
C30_Witness ==
    /\ numSnoozes = 138
    /\ gameTime = [hour |-> 0, minute |-> 6]
    /\ "fade_out" \in emitted

\* C31: every accepted hit is counted once.  The step of snooze_system that
\* consumes snooze events consumes exactly one, raises the snooze count by one
\* and advances the clock by one snooze; and a hit is accepted only when no
\* earlier hit is pending and no fade-out is in flight.  Violated: a hit
\* accepted after snooze_system has run in its frame leaves the gate open, a
\* second hit accepted at the start of the next frame joins it, and
\* snooze_system, which reads only whether an event is there, counts the two
\* as one snooze.
C31_OneSnoozePerHit ==
    [][/\ (StepOf("snooze") /\ snoozeEvents > 0)
             => /\ snoozeEvents = 1
                /\ numSnoozes' = numSnoozes + 1
                /\ gameTime' = Snooze(gameTime)
       /\ (StepOf("press") /\ "snooze_event" \in emitted')
             => /\ snoozeEvents = 0
                /\ ~FadeOutInFlight]_vars

\* C32: during a round the looped alarm sound plays exactly while the alarm
\* is active: it has been stopped after every step that turned the alarm off
\* and plays again once the alarm has been turned back on.  Violated:
\* table_bounds_system turns the alarm off and leaves the channel playing,
\* and alarm_sound_system runs only on entering the round.
C32_AlarmSoundFollowsAlarmActive ==
    gameState = "Game" => (alarmPlaying <=> alarmActive)

====
